---------------------------- MODULE Spec2Model ----------------------------
(***************************************************************************)
(* Battleship Infinity: the two team grids held by BattleProvider          *)
(* (contexts/BattleContext), the action processor (processAction,           *)
(* placeShip, fireShot), the chunk aggregator (updateChunkActivity,         *)
(* updateHeatLevels, resetHeatMap), the heat decay timer,                   *)
(* simulateBattle, the team choice kept by TeamSelectionProvider and the    *)
(* cell click handler of BattleField.                                       *)
(*                                                                         *)
(* React state semantics that the code depends on:                         *)
(*  - setXTeamGrid(prev => ...) puts the updater in a queue; the queued     *)
(*    updaters run, in order, when the component re-renders after the       *)
(*    handler has returned.  `pending` is the state the queue produces.     *)
(*  - the rows of `grid` are shared objects mutated in place, so            *)
(*    blueTeamGrid.grid read inside a handler shows every updater that has  *)
(*    run and none that is still queued.                                    *)
(*  - a handler that runs outside React's batching (a setInterval callback  *)
(*    under a legacy root) has every setState applied synchronously; under  *)
(*    a concurrent root the same handler is batched.  The root API is not   *)
(*    part of the sources, so simulateBattle (called from setInterval)      *)
(*    takes either mode; click handlers are always batched.                 *)
(***************************************************************************)
EXTENDS Integers, Sequences, FiniteSets, TLC

\* ------------------------------------------------------------- bounds --
CHUNK_SIZE == 2
CELLS_PER_CHUNK == 2
MaxX == 1
MaxY == 0
MaxShips == 2
MaxTeamsShips == 1
MaxShots == 2
MaxTicks == 2
MaxSimShots == 4
MaxBatchShots == 18
MaxBatchShips == 4
MaxBatchX == 1
MaxBatchFireX == 0
MaxBatchSizeIdx == 1
MaxVolleyShips == 1
MaxVolleyShots == 6
MaxVolleyClicks == 7
MaxOut == 1
MaxCallShips == 1
MaxCallShots == 2
MaxDecayTicks == 26
MaxDecayShots == 2
MaxLifeTicks == 26
MaxLifeShots == 2
MaxFadeShots == 2
MaxTestShips == 1
MaxTestShots == 2
MaxSkew == 1
MaxPreviewX == 1
MaxUiShips == 1
MaxUiShots == 2
MaxHeatChunks == 10
MaxHeatActivity == 2
MaxStatHits == 200
MaxStatDestroyed == 29
MaxStatActive == 1
StartTime == 100000

\* ---------------------------------------------------------- constants --
GRID_SIZE == CHUNK_SIZE * CELLS_PER_CHUNK
SHIP_SIZES == <<2, 3, 4, 5>>
DESTROYED_TERRITORY_COOLDOWN == 10000
DECAY_INTERVAL == 10000
ACTIVITY_LIFETIME == 120000
ACTIVITY_EXTENDED_LIFETIME == 240000
NO_DECAY_PERIOD == 60000
\* retention per tick, in thousandths
SUPER_SLOW_DECAY_RATE == 999
SLOW_DECAY_RATE == 980
FINAL_DECAY_RATE == 950

Teams == {"blue", "red"}
Coords == 0 .. (GRID_SIZE - 1)
Cells == Coords \X Coords
ChunkIds == (0 .. (CHUNK_SIZE - 1)) \X (0 .. (CHUNK_SIZE - 1))
\* inputs: shots at the columns on either side of the first chunk boundary,
\* ships anchored there or one column further, in the first rows, of the
\* smallest and the largest size, for the team the user has selected
ClickX == (CELLS_PER_CHUNK - 1) .. (CELLS_PER_CHUNK - 1 + MaxX)
PlaceX == (CELLS_PER_CHUNK - 1) .. (CELLS_PER_CHUNK + MaxX)
PlaceSizes == {SHIP_SIZES[1], SHIP_SIZES[Len(SHIP_SIZES)]}
ClickY == 0 .. MaxY
PlaceTeams == {"blue"}
\* calls of placeShip and fireShot with coordinates on and off the grid
CallX == (0 - MaxOut) .. (GRID_SIZE - 1 + MaxOut)
CallY == {0 - MaxOut, 0, GRID_SIZE - 1 + MaxOut}

\* teamGrid[t]   blueTeamGrid / redTeamGrid as last rendered
\* pending[t]    the state the queued updaters produce at the next render
\* sim           position of a running simulateBattle call
\* now           Date.now()
\* nextId        source of generateId() values
\* shots         number of FIRE actions issued so far
\* last          the last call made and what it returned
\* ui            TeamSelectionProvider's state, the stored team choice and
\*               BattleField's gameMode
VARIABLES teamGrid, pending, sim, now, nextId, shots, last, ui

vars == <<teamGrid, pending, sim, now, nextId, shots, last, ui>>

Opposite(team) == IF team = "blue" THEN "red" ELSE "blue"

\* ------------------------------------------------------- utils/grid ----
EmptyCell == [occupied |-> FALSE, hit |-> FALSE, ship |-> 0, cooldownUntil |-> 0]

generateEmptyGrid == [c \in Cells |-> EmptyCell]

getChunkFromCoords(x, y) == <<x \div CELLS_PER_CHUNK, y \div CELLS_PER_CHUNK>>

InBounds(c) == c[1] >= 0 /\ c[1] < GRID_SIZE /\ c[2] >= 0 /\ c[2] < GRID_SIZE

\* variant: the cooldown test left out
isValidShipPlacement_NoCooldown(grid, cells, t) ==
    \A i \in 1 .. Len(cells) :
        /\ InBounds(cells[i])
        /\ ~grid[cells[i]].occupied

isValidShipPlacement(grid, cells, t) ==
    \A i \in 1 .. Len(cells) :
        /\ InBounds(cells[i])
        /\ ~grid[cells[i]].occupied
        /\ (grid[cells[i]].cooldownUntil = 0 \/ grid[cells[i]].cooldownUntil < t)

\* ------------------------------------------------------ Grid.tsx -------
\* isValid of drawShipPreview for the hovered cell (x, y)
drawShipPreview(grid, x, y, selectedShipSize, isHorizontal, t) ==
    LET shipCells == [i \in 1 .. selectedShipSize |->
                         IF isHorizontal THEN <<x + i - 1, y>> ELSE <<x, y + i - 1>>]
    IN  \A i \in 1 .. Len(shipCells) :
            LET cell == shipCells[i]
            IN  IF cell[1] < 0 \/ cell[1] >= GRID_SIZE \/ cell[2] < 0 \/ cell[2] >= GRID_SIZE
                THEN FALSE
                ELSE IF grid[cell].occupied THEN FALSE
                ELSE IF grid[cell].cooldownUntil # 0 /\ grid[cell].cooldownUntil > t
                     THEN FALSE
                ELSE TRUE

\* ---------------------------------------------------- BattleProvider ---
InitialChunk == [heatLevel |-> 0, lastActivity |-> 0, activityCount |-> 0]

InitialTeamGrid ==
    [grid |-> generateEmptyGrid,
     ships |-> <<>>,
     chunks |-> [k \in ChunkIds |-> InitialChunk],
     stats |-> [totalShips |-> 0, totalHits |-> 0]]

\* activityCount is a float in the code; it is kept here in thousandths.
ActivityOne == 10 * 100

Max2(a, b) == IF a >= b THEN a ELSE b
Min2(a, b) == IF a <= b THEN a ELSE b

\* sortedChunks[idx].activityCount, sortedChunks being the active chunks
\* sorted by descending activityCount
SortedActivityAt(chunks, active, idx) ==
    CHOOSE v \in {chunks[k].activityCount : k \in active} :
        /\ Cardinality({k \in active : chunks[k].activityCount > v}) <= idx
        /\ Cardinality({k \in active : chunks[k].activityCount >= v}) > idx

\* variant: a warm chunk that was warm before is made hot
updateHeatLevels_Promote(chunks) ==
    LET active == {k \in DOMAIN chunks : chunks[k].activityCount > 0}
        n == Cardinality(active)
    IN  IF n = 0 THEN chunks
        ELSE
        LET maxActivity == SortedActivityAt(chunks, active, 0)
            hotCount == Max2(1, (n * 2) \div 10)
            warmCount == Max2(2, (n * 3) \div 10)
            hotThreshold == SortedActivityAt(chunks, active, Min2(hotCount - 1, n - 1))
            warmThreshold ==
                SortedActivityAt(chunks, active, Min2(hotCount + warmCount - 1, n - 1))
            level(k) == LET a == chunks[k].activityCount
                        IN  IF a >= hotThreshold /\ a > 0 THEN 3
                            ELSE IF a >= warmThreshold /\ a > 0
                                 THEN (IF chunks[k].heatLevel = 2 THEN 3 ELSE 2)
                            ELSE IF a * 100 >= maxActivity * 3 THEN 1
                            ELSE 0
        IN  [k \in DOMAIN chunks |-> [chunks[k] EXCEPT !.heatLevel = level(k)]]

\* variant: the levels of the hot and the warm chunks exchanged
updateHeatLevels_Swapped(chunks) ==
    LET active == {k \in DOMAIN chunks : chunks[k].activityCount > 0}
        n == Cardinality(active)
    IN  IF n = 0 THEN chunks
        ELSE
        LET maxActivity == SortedActivityAt(chunks, active, 0)
            hotCount == Max2(1, (n * 2) \div 10)
            warmCount == Max2(2, (n * 3) \div 10)
            hotThreshold == SortedActivityAt(chunks, active, Min2(hotCount - 1, n - 1))
            warmThreshold ==
                SortedActivityAt(chunks, active, Min2(hotCount + warmCount - 1, n - 1))
            level(a) == IF a >= hotThreshold /\ a > 0 THEN 2
                        ELSE IF a >= warmThreshold /\ a > 0 THEN 3
                        ELSE IF a * 100 >= maxActivity * 3 THEN 1
                        ELSE 0
        IN  [k \in DOMAIN chunks |->
                [chunks[k] EXCEPT !.heatLevel = level(chunks[k].activityCount)]]

\* variant: a tenth of the active chunks hot instead of a fifth
updateHeatLevels_Tenth(chunks) ==
    LET active == {k \in DOMAIN chunks : chunks[k].activityCount > 0}
        n == Cardinality(active)
    IN  IF n = 0 THEN chunks
        ELSE
        LET maxActivity == SortedActivityAt(chunks, active, 0)
            hotCount == Max2(1, n \div 10)
            warmCount == Max2(2, (n * 3) \div 10)
            hotThreshold == SortedActivityAt(chunks, active, Min2(hotCount - 1, n - 1))
            warmThreshold ==
                SortedActivityAt(chunks, active, Min2(hotCount + warmCount - 1, n - 1))
            level(a) == IF a >= hotThreshold /\ a > 0 THEN 3
                        ELSE IF a >= warmThreshold /\ a > 0 THEN 2
                        ELSE IF a * 100 >= maxActivity * 3 THEN 1
                        ELSE 0
        IN  [k \in DOMAIN chunks |->
                [chunks[k] EXCEPT !.heatLevel = level(chunks[k].activityCount)]]

updateHeatLevels(chunks) ==
    LET active == {k \in DOMAIN chunks : chunks[k].activityCount > 0}
        n == Cardinality(active)
    IN  IF n = 0 THEN chunks
        ELSE
        LET maxActivity == SortedActivityAt(chunks, active, 0)
            hotCount == Max2(1, (n * 2) \div 10)
            warmCount == Max2(2, (n * 3) \div 10)
            hotThreshold == SortedActivityAt(chunks, active, Min2(hotCount - 1, n - 1))
            warmThreshold ==
                SortedActivityAt(chunks, active, Min2(hotCount + warmCount - 1, n - 1))
            level(a) == IF a >= hotThreshold /\ a > 0 THEN 3
                        ELSE IF a >= warmThreshold /\ a > 0 THEN 2
                        ELSE IF a * 100 >= maxActivity * 3 THEN 1
                        ELSE 0
        IN  [k \in DOMAIN chunks |->
                [chunks[k] EXCEPT !.heatLevel = level(chunks[k].activityCount)]]

\* variant: lastActivity left as it is
ChunkActivityUpdater_NoTimestamp(prev, x, y, t) ==
    LET k == getChunkFromCoords(x, y)
        newChunks == IF k \in ChunkIds
                     THEN [prev.chunks EXCEPT ![k] =
                              [@ EXCEPT !.activityCount = @ + ActivityOne]]
                     ELSE prev.chunks
    IN  [prev EXCEPT !.chunks = updateHeatLevels(newChunks)]

\* variant: the heat levels are not recomputed
ChunkActivityUpdater_NoHeat(prev, x, y, t) ==
    LET k == getChunkFromCoords(x, y)
    IN  IF k \in ChunkIds
        THEN [prev EXCEPT !.chunks[k] =
                 [@ EXCEPT !.activityCount = @ + ActivityOne, !.lastActivity = t]]
        ELSE prev

\* the updater updateChunkActivity queues on the target team's state
ChunkActivityUpdater(prev, x, y, t) ==
    LET k == getChunkFromCoords(x, y)
        newChunks == IF k \in ChunkIds
                     THEN [prev.chunks EXCEPT ![k] =
                              [@ EXCEPT !.activityCount = @ + ActivityOne,
                                        !.lastActivity = t]]
                     ELSE prev.chunks
    IN  [prev EXCEPT !.chunks = updateHeatLevels(newChunks)]

\* resetHeatMap's updater
ResetChunksUpdater(prev) ==
    [prev EXCEPT !.chunks = [k \in ChunkIds |-> InitialChunk]]

\* variant: totalHits left as it is
HitUpdater_NoStat(prev, x, y) ==
    [prev EXCEPT !.grid[<<x, y>>].hit = TRUE]

\* processAction FIRE: the updater that marks the cell hit
HitUpdater(prev, x, y) ==
    [prev EXCEPT !.grid[<<x, y>>].hit = TRUE,
                 !.stats.totalHits = @ + 1]

\* processAction FIRE: the updater that records the hit on the ship
ShipHitUpdater(prev, shipId) ==
    [prev EXCEPT !.ships =
        [i \in 1 .. Len(prev.ships) |->
            IF prev.ships[i].id = shipId
            THEN [prev.ships[i] EXCEPT
                     !.hits = prev.ships[i].hits + 1,
                     !.destroyed = (prev.ships[i].hits + 1 = Len(prev.ships[i].cells))]
            ELSE prev.ships[i]]]

\* the side effect of that updater: shipWasDestroyed / destroyedShipCells
DestroyedBy(prev, shipId) ==
    {i \in 1 .. Len(prev.ships) :
        /\ prev.ships[i].id = shipId
        /\ prev.ships[i].hits + 1 = Len(prev.ships[i].cells)}

Range(f) == {f[i] : i \in DOMAIN f}

\* applyCooldownToShipArea: the ship's cells and their in-bounds neighbours
CooldownCells(shipCells) ==
    {c \in Cells : \E s \in Range(shipCells) :
        /\ c[1] - s[1] \in {-1, 0, 1}
        /\ c[2] - s[2] \in {-1, 0, 1}}

applyCooldownToShipArea(prev, shipCells, t) ==
    LET cooldownEndTime == t + DESTROYED_TERRITORY_COOLDOWN
        cooldownCells == CooldownCells(shipCells)
    IN  [prev EXCEPT !.grid =
            [c \in Cells |->
                IF c \in cooldownCells
                THEN [prev.grid[c] EXCEPT !.cooldownUntil = cooldownEndTime]
                ELSE prev.grid[c]]]

\* variant: the cells written without the reference to the ship
PlaceUpdater_NoRef(prev, newShip) ==
    [prev EXCEPT
        !.grid = [c \in Cells |->
                    IF c \in Range(newShip.cells)
                    THEN [occupied |-> TRUE, hit |-> FALSE,
                          ship |-> 0, cooldownUntil |-> 0]
                    ELSE prev.grid[c]],
        !.ships = Append(prev.ships, newShip),
        !.stats.totalShips = @ + 1]

\* variant: totalShips left as it is
PlaceUpdater_KeepStats(prev, newShip) ==
    [prev EXCEPT
        !.grid = [c \in Cells |->
                    IF c \in Range(newShip.cells)
                    THEN [occupied |-> TRUE, hit |-> FALSE,
                          ship |-> newShip.id, cooldownUntil |-> 0]
                    ELSE prev.grid[c]],
        !.ships = Append(prev.ships, newShip)]

\* processAction PLACE_SHIP: the updater that writes the ship
\* variant: the registry keeps the newest ship only
PlaceUpdater_Replace(prev, newShip) ==
    [prev EXCEPT
        !.grid = [c \in Cells |->
                    IF c \in Range(newShip.cells)
                    THEN [occupied |-> TRUE, hit |-> FALSE,
                          ship |-> newShip.id, cooldownUntil |-> 0]
                    ELSE prev.grid[c]],
        !.ships = <<newShip>>,
        !.stats.totalShips = @ + 1]

\* variant: the placement also counts as activity in the chunk of the bow
PlaceUpdater_Activity(prev, newShip) ==
    [prev EXCEPT
        !.grid = [c \in Cells |->
                    IF c \in Range(newShip.cells)
                    THEN [occupied |-> TRUE, hit |-> FALSE,
                          ship |-> newShip.id, cooldownUntil |-> 0]
                    ELSE prev.grid[c]],
        !.ships = Append(prev.ships, newShip),
        !.stats.totalShips = @ + 1,
        !.chunks[getChunkFromCoords(newShip.cells[1][1], newShip.cells[1][2])]
            .activityCount = @ + ActivityOne]

PlaceUpdater(prev, newShip) ==
    [prev EXCEPT
        !.grid = [c \in Cells |->
                    IF c \in Range(newShip.cells)
                    THEN [occupied |-> TRUE, hit |-> FALSE,
                          ship |-> newShip.id, cooldownUntil |-> 0]
                    ELSE prev.grid[c]],
        !.ships = Append(prev.ships, newShip),
        !.stats.totalShips = @ + 1]

\* variant: the lost activity added instead of removed
DecayChunk_Grow(chunk, t) ==
    IF chunk.activityCount > 0
    THEN LET timeSinceActivity == t - chunk.lastActivity
             decayRate == IF timeSinceActivity < ACTIVITY_LIFETIME
                          THEN SUPER_SLOW_DECAY_RATE
                          ELSE IF timeSinceActivity < ACTIVITY_EXTENDED_LIFETIME
                               THEN SLOW_DECAY_RATE
                               ELSE FINAL_DECAY_RATE
             newActivityCount == (chunk.activityCount * (2000 - decayRate)) \div 1000
         IN  IF timeSinceActivity <= NO_DECAY_PERIOD THEN chunk
             ELSE IF (newActivityCount - chunk.activityCount) * 100 > ActivityOne
                  THEN [chunk EXCEPT !.activityCount = newActivityCount]
                  ELSE chunk
    ELSE chunk

\* variant: the product is kept however small the change
DecayChunk_NoEpsilon(chunk, t) ==
    IF chunk.activityCount > 0
    THEN LET timeSinceActivity == t - chunk.lastActivity
             decayRate == IF timeSinceActivity < ACTIVITY_LIFETIME
                          THEN SUPER_SLOW_DECAY_RATE
                          ELSE IF timeSinceActivity < ACTIVITY_EXTENDED_LIFETIME
                               THEN SLOW_DECAY_RATE
                               ELSE FINAL_DECAY_RATE
             newActivityCount == (chunk.activityCount * decayRate) \div 1000
         IN  IF timeSinceActivity <= NO_DECAY_PERIOD THEN chunk
             ELSE IF newActivityCount * 10 < ActivityOne
                  THEN [chunk EXCEPT !.activityCount = 0, !.heatLevel = 0]
                  ELSE [chunk EXCEPT !.activityCount = newActivityCount]
    ELSE chunk

\* the decay timer's updater for one team
DecayChunk(chunk, t) ==
    IF chunk.activityCount > 0
    THEN LET timeSinceActivity == t - chunk.lastActivity
             decayRate == IF timeSinceActivity < ACTIVITY_LIFETIME
                          THEN SUPER_SLOW_DECAY_RATE
                          ELSE IF timeSinceActivity < ACTIVITY_EXTENDED_LIFETIME
                               THEN SLOW_DECAY_RATE
                               ELSE FINAL_DECAY_RATE
             newActivityCount == (chunk.activityCount * decayRate) \div 1000
         IN  IF timeSinceActivity <= NO_DECAY_PERIOD THEN chunk
             ELSE IF newActivityCount * 10 < ActivityOne
                  THEN [chunk EXCEPT !.activityCount = 0, !.heatLevel = 0]
                  ELSE IF (chunk.activityCount - newActivityCount) * 100 > ActivityOne
                       THEN [chunk EXCEPT !.activityCount = newActivityCount]
                       ELSE chunk
    ELSE chunk

DecayUpdater(prev, t) ==
    LET newChunks == [k \in ChunkIds |-> DecayChunk(prev.chunks[k], t)]
        hasChanges == newChunks # prev.chunks
    IN  IF hasChanges
        THEN [prev EXCEPT !.chunks = updateHeatLevels(newChunks)]
        ELSE prev

\* ------------------------------------------- calculateAdditionalStats --
\* IEEE-754 double arithmetic on positive numbers.  A number is kept as
\* [bits, scale]: bits is a binary numeral, most significant bit first, and
\* the value is that integer divided by 2^scale.
MANTISSA_BITS == 53

\* numerals are worked DIGIT_BITS bits at a time
DIGIT_BITS == 6

RECURSIVE Pow2(_)
Pow2(n) == IF n = 0 THEN 1 ELSE 2 * Pow2(n - 1)

\* the w-bit numeral of v
Bits(v, w) == [i \in 1 .. w |-> (v \div Pow2(w - i)) % 2]

RECURSIVE ToInt(_)
ToInt(bits) ==
    IF Len(bits) = 0 THEN 0
    ELSE 2 * ToInt(SubSeq(bits, 1, Len(bits) - 1)) + bits[Len(bits)]

RECURSIVE Expand(_, _, _)
\* the first n bits of r / t after the binary point (r < t), and the
\* remainder left
Expand(r, t, n) ==
    IF n = 0 \/ r = 0 THEN [bits |-> [i \in 1 .. n |-> 0], rem |-> r]
    ELSE LET w == IF n < DIGIT_BITS THEN n ELSE DIGIT_BITS
             v == r * Pow2(w)
             rest == Expand(v % t, t, n - w)
         IN  [bits |-> Bits(v \div t, w) \o rest.bits, rem |-> rest.rem]

\* bits plus one
Inc(bits) ==
    LET n == Len(bits)
    IN  IF \A i \in 1 .. n : bits[i] = 1 THEN <<1>> \o [i \in 1 .. n |-> 0]
        ELSE [i \in 1 .. n |->
                 IF \A j \in (i + 1) .. n : bits[j] = 1 THEN 1 - bits[i] ELSE bits[i]]

RECURSIVE CarryBits(_)
CarryBits(n) == IF n = 0 THEN <<>> ELSE CarryBits(n \div 2) \o <<n % 2>>

RECURSIVE MulSmall(_, _, _)
\* bits times the small integer c, plus carry at the last place
MulSmall(bits, c, carry) ==
    IF carry = 0 /\ Len(bits) = 0 THEN <<>>
    ELSE IF Len(bits) = 0 THEN CarryBits(carry)
    ELSE LET n == Len(bits)
             w == IF n < DIGIT_BITS THEN n ELSE DIGIT_BITS
             v == c * ToInt(SubSeq(bits, n - w + 1, n)) + carry
         IN  MulSmall(SubSeq(bits, 1, n - w), c, v \div Pow2(w)) \o Bits(v % Pow2(w), w)

\* bits without its leading zeros
StripZeros(bits) ==
    LET ones == {i \in 1 .. Len(bits) : bits[i] = 1}
    IN  IF ones = {} THEN <<>>
        ELSE SubSeq(bits, CHOOSE i \in ones : \A j \in ones : i <= j, Len(bits))

\* round to nearest, ties to even, to MANTISSA_BITS significant bits; sticky
\* tells that nonzero digits follow the numeral
RoundToDouble(f, sticky) ==
    LET bits == StripZeros(f.bits)
        extra == Len(bits) - MANTISSA_BITS
    IN  IF extra <= 0 THEN [bits |-> bits, scale |-> f.scale]
        ELSE LET kept == SubSeq(bits, 1, MANTISSA_BITS)
                 guard == bits[MANTISSA_BITS + 1]
                 rest == \E i \in (MANTISSA_BITS + 2) .. Len(bits) : bits[i] = 1
                 up == guard = 1 /\ (rest \/ sticky \/ kept[MANTISSA_BITS] = 1)
             IN  [bits |-> IF up THEN Inc(kept) ELSE kept, scale |-> f.scale - extra]

RECURSIVE Doublings(_, _)
\* the least z with a * 2^z >= b
Doublings(a, b) == IF a >= b THEN 0 ELSE 1 + Doublings(2 * a, b)

\* the double d / t for integers d, t > 0
FloatDiv(d, t) ==
    LET z == Doublings(2 * d, t)           \* d * 2^z in [t/2, t)
        k == Doublings(t, d + 1)           \* t * 2^k > d
        num == d * Pow2(z)
        den == t * Pow2(k)
        e == Expand(num, den, MANTISSA_BITS + 1)
    IN  RoundToDouble([bits |-> e.bits, scale |-> MANTISSA_BITS + 1 + z - k], e.rem # 0)

\* the double f * c for a small integer c
FloatMulSmall(f, c) ==
    RoundToDouble([bits |-> MulSmall(f.bits, c, 0), scale |-> f.scale], FALSE)

\* Math.round: the nearest integer, a tie going up
MathRound(f) ==
    LET whole == Len(f.bits) - f.scale
    IN  IF whole < 0 THEN 0
        ELSE ToInt(SubSeq(f.bits, 1, whole))
             + (IF whole < Len(f.bits) THEN f.bits[whole + 1] ELSE 0)

DestroyedShips(ships) == Cardinality({i \in 1 .. Len(ships) : ships[i].destroyed})

calculateAdditionalStats(ships, totalHits) ==
    LET destroyedShips == DestroyedShips(ships)
    IN  [destroyedShips |-> destroyedShips,
         activeShips |-> Len(ships) - destroyedShips,
         hitRatio |-> IF totalHits > 0
                      THEN IF destroyedShips = 0 THEN 0
                           ELSE MathRound(FloatMulSmall(FloatDiv(destroyedShips, totalHits), 100))
                      ELSE 0]

\* the stats a render derives for a team
TeamStats(team) ==
    calculateAdditionalStats(teamGrid[team].ships, teamGrid[team].stats.totalHits)

\* ------------------------------------------------------ processAction --
GridsOf(tg) == [t \in Teams |-> tg[t].grid]

\* variant: FIRE without the test of cell.hit
processFire_NoHitCheck(grids, q, x, y, team, t, sync) ==
    LET targetTeam == Opposite(team)
        q1 == [q EXCEPT ![targetTeam] = ChunkActivityUpdater(@, x, y, t)]
    IN  IF ~InBounds(<<x, y>>)
        THEN [ret |-> "throw", q |-> q1]
        ELSE
        LET cell == grids[targetTeam][<<x, y>>]
            q2 == [q1 EXCEPT ![targetTeam] = HitUpdater(@, x, y)]
        IN
        IF cell.occupied /\ cell.ship # 0
        THEN LET q3 == [q2 EXCEPT ![targetTeam] = ShipHitUpdater(@, cell.ship)]
                 destroyed == DestroyedBy(q2[targetTeam], cell.ship)
                 shipWasDestroyed == sync /\ destroyed # {}
             IN  IF shipWasDestroyed
                 THEN LET i == CHOOSE j \in destroyed : \A m \in destroyed : j >= m
                          destroyedShipCells == q2[targetTeam].ships[i].cells
                      IN  [ret |-> "true",
                           q |-> [q3 EXCEPT ![targetTeam] =
                                    applyCooldownToShipArea(@, destroyedShipCells, t)]]
                 ELSE [ret |-> "true", q |-> q3]
        ELSE [ret |-> "true", q |-> q2]

\* FIRE.  grids is what blueTeamGrid.grid / redTeamGrid.grid show when the
\* handler reads them, q the state the setState calls act on, sync whether
\* each updater runs inside its setState call.
processFire(grids, q, x, y, team, t, sync) ==
    LET targetTeam == Opposite(team)
        q1 == [q EXCEPT ![targetTeam] = ChunkActivityUpdater(@, x, y, t)]
    IN  IF ~InBounds(<<x, y>>)
        THEN [ret |-> "throw", q |-> q1]
        ELSE
        LET cell == grids[targetTeam][<<x, y>>] IN
        IF cell.hit
        THEN [ret |-> "false", q |-> q1]
        ELSE
        LET q2 == [q1 EXCEPT ![targetTeam] = HitUpdater(@, x, y)] IN
        IF cell.occupied /\ cell.ship # 0
        THEN LET q3 == [q2 EXCEPT ![targetTeam] = ShipHitUpdater(@, cell.ship)]
                 destroyed == DestroyedBy(q2[targetTeam], cell.ship)
                 shipWasDestroyed == sync /\ destroyed # {}
             IN  IF shipWasDestroyed
                 THEN LET i == CHOOSE j \in destroyed : \A m \in destroyed : j >= m
                          destroyedShipCells == q2[targetTeam].ships[i].cells
                      IN  [ret |-> "true",
                           q |-> [q3 EXCEPT ![targetTeam] =
                                    applyCooldownToShipArea(@, destroyedShipCells, t)]]
                 ELSE [ret |-> "true", q |-> q3]
        ELSE [ret |-> "true", q |-> q2]

\* variant: PLACE_SHIP written to the other team's state
processPlace_OtherTeam(grids, q, shipCells, shipId, owner, team, t) ==
    LET newShip == [id |-> shipId, owner |-> owner, cells |-> shipCells,
                    hits |-> 0, destroyed |-> FALSE]
    IN  IF ~isValidShipPlacement(grids[team], shipCells, t)
        THEN [ret |-> "false", q |-> q]
        ELSE [ret |-> "true",
              q |-> [q EXCEPT ![Opposite(team)] = PlaceUpdater(@, newShip)]]

\* PLACE_SHIP
processPlace(grids, q, shipCells, shipId, owner, team, t) ==
    LET newShip == [id |-> shipId, owner |-> owner, cells |-> shipCells,
                    hits |-> 0, destroyed |-> FALSE]
    IN  IF ~isValidShipPlacement(grids[team], shipCells, t)
        THEN [ret |-> "false", q |-> q]
        ELSE [ret |-> "true", q |-> [q EXCEPT ![team] = PlaceUpdater(@, newShip)]]

ShipCellsAt(x, y, size, horizontal) ==
    [i \in 1 .. size |-> IF horizontal THEN <<x + i - 1, y>> ELSE <<x, y + i - 1>>]

Idle == [phase |-> "idle", i |-> 0, n |-> 0, sync |-> FALSE]

TotalShips(tg) == tg["blue"].stats.totalShips + tg["red"].stats.totalShips

\* Math.floor(Math.random() * m)
RandFloor(m) == IF m > 0 THEN 0 .. (m - 1) ELSE m .. 0

\* the placements generateRandomShipPlacement can draw, the draws kept to
\* x <= maxX, y <= MaxY
PlacementDraws(size, maxX) ==
    {ShipCellsAt(x, y, size, TRUE) :
        x \in {v \in RandFloor(GRID_SIZE - size) : v <= maxX},
        y \in {v \in RandFloor(GRID_SIZE) : v <= MaxY}}
    \cup
    {ShipCellsAt(x, y, size, FALSE) :
        x \in {v \in RandFloor(GRID_SIZE) : v <= maxX},
        y \in {v \in RandFloor(GRID_SIZE - size) : v <= MaxY}}

\* its results: a valid draw, or null (<<>>) after 100 invalid draws
generateRandomShipPlacement(grid, size, maxX, t) ==
    LET draws == PlacementDraws(size, maxX)
        valid == {cells \in draws : isValidShipPlacement(grid, cells, t)}
    IN  valid \cup (IF valid # draws \/ draws = {} THEN {<<>>} ELSE {})

\* simulateBattle: loop bounds
ShipsPerTeam(n) == n \div 10
FiresPerTeam(n) == ((n * 9) \div 10) \div 2

\* the loop the call is in after the current one has run i times
SimAdvance(s) ==
    LET order == <<"shipsBlue", "shipsRed", "fireBlue", "fireRed", "render">>
        count(ph) == IF ph \in {"shipsBlue", "shipsRed"} THEN ShipsPerTeam(s.n)
                     ELSE IF ph \in {"fireBlue", "fireRed"} THEN FiresPerTeam(s.n)
                     ELSE 1
        idx == CHOOSE j \in 1 .. 5 : order[j] = s.phase
        later == {j \in idx .. 5 : IF j = idx THEN s.i < count(order[j])
                                   ELSE count(order[j]) > 0}
        nxt == CHOOSE j \in later : \A m \in later : j <= m
    IN  IF nxt = idx THEN s ELSE [s EXCEPT !.phase = order[nxt], !.i = 0]

\* ------------------------------------------------------------ actions --
\* --------------------------------------------- TeamSelectionContext ----

\* localStorage.getItem(TEAM_STORAGE_KEY): null when the key is absent,
\* otherwise the stored string, which need not be a team
NoValue == "null"
StoredValues == Teams \cup {NoValue, "green"}

GameViews == {"attack", "defend"}

\* the state after the first render of TeamSelectionProvider and BattleField;
\* effects is TRUE while the persisting effect of the last render has not run
StartUp(store) ==
    [store |-> store,
     selectedTeam |-> IF store = "red" \/ store = "blue" THEN store ELSE "blue",
     activeView |-> "attack",
     hasSelectedTeam |-> store # NoValue,
     gameMode |-> "fire",
     effects |-> TRUE]

\* --------------------------------------------------- BattleProvider ----

Init ==
    /\ teamGrid = [t \in Teams |-> InitialTeamGrid]
    /\ pending = [t \in Teams |-> InitialTeamGrid]
    /\ sim = Idle
    /\ ui = StartUp(NoValue)
    /\ now = StartTime
    /\ nextId = 1
    /\ shots = 0
    /\ last = [op |-> "init", ret |-> "true"]

\* placeShip called from a click handler
PlaceShip(x, y, size, horizontal, team) ==
    /\ sim.phase = "idle"
    /\ LET r == processPlace(GridsOf(teamGrid), teamGrid,
                             ShipCellsAt(x, y, size, horizontal),
                             nextId, "player", team, now)
       IN  /\ teamGrid' = r.q
           /\ pending' = r.q
           /\ nextId' = IF r.ret = "true" THEN nextId + 1 ELSE nextId
           /\ last' = [op |-> "placeShip", ret |-> r.ret]
    /\ UNCHANGED <<sim, now, shots, ui>>

\* fireShot called from a click handler
FireShot(x, y, team) ==
    /\ sim.phase = "idle"
    /\ LET r == processFire(GridsOf(teamGrid), teamGrid, x, y, team, now, FALSE)
       IN  /\ teamGrid' = r.q
           /\ pending' = r.q
           /\ last' = [op |-> "fireShot", ret |-> r.ret]
    /\ shots' = shots + 1
    /\ UNCHANGED <<sim, now, nextId, ui>>

\* the decay interval callback, DECAY_INTERVAL after the previous one
DecayTick(maxTicks) ==
    /\ sim.phase = "idle"
    /\ now + DECAY_INTERVAL <= StartTime + maxTicks * DECAY_INTERVAL
    /\ now' = now + DECAY_INTERVAL
    /\ teamGrid' = [t \in Teams |-> DecayUpdater(teamGrid[t], now')]
    /\ pending' = teamGrid'
    /\ last' = [op |-> "decay", ret |-> "true"]
    /\ UNCHANGED <<sim, nextId, shots, ui>>

\* simulateBattle(n, options) is entered: resetHeatMap unless a testAction
\* is given
SimStart(n, test, sync, maxShips, maxShots) ==
    /\ sim.phase = "idle"
    /\ shots + 2 * FiresPerTeam(n) <= maxShots
    /\ TotalShips(teamGrid) + 2 * ShipsPerTeam(n) <= maxShips
    /\ LET q == IF test THEN teamGrid
                ELSE [t \in Teams |-> ResetChunksUpdater(teamGrid[t])]
       IN  /\ pending' = q
           /\ teamGrid' = IF sync THEN q ELSE teamGrid
    /\ sim' = SimAdvance([phase |-> "shipsBlue", i |-> 0, n |-> n, sync |-> sync])
    /\ last' = [op |-> "simulateBattle", ret |-> "true"]
    /\ UNCHANGED <<now, nextId, shots, ui>>

\* one iteration of generateShips(team)
SimPlace(sizeIdx, maxX) ==
    /\ sim.phase \in {"shipsBlue", "shipsRed"}
    /\ LET team == IF sim.phase = "shipsBlue" THEN "blue" ELSE "red"
           size == SHIP_SIZES[sizeIdx]
       IN  \E shipCells \in generateRandomShipPlacement(teamGrid[team].grid, size, maxX, now) :
              IF Len(shipCells) > 0
              THEN LET r == processPlace(GridsOf(teamGrid), pending, shipCells,
                                         nextId, "anon", team, now)
                   IN  /\ pending' = r.q
                       /\ teamGrid' = IF sim.sync THEN r.q ELSE teamGrid
                       /\ nextId' = nextId + 1
                       /\ last' = [op |-> "simPlace", ret |-> r.ret]
              ELSE /\ UNCHANGED <<teamGrid, pending, nextId>>
                   /\ last' = [op |-> "simPlace", ret |-> "null"]
    /\ sim' = SimAdvance([sim EXCEPT !.i = @ + 1])
    /\ UNCHANGED <<now, shots, ui>>

\* one iteration of simulateFiring(team, count)
SimFire(x, y) ==
    /\ sim.phase \in {"fireBlue", "fireRed"}
    /\ LET team == IF sim.phase = "fireBlue" THEN "blue" ELSE "red"
           r == processFire(GridsOf(teamGrid), pending, x, y, team, now, sim.sync)
       IN  /\ pending' = r.q
           /\ teamGrid' = IF sim.sync THEN r.q ELSE teamGrid
           /\ last' = [op |-> "simFire", ret |-> r.ret]
    /\ sim' = SimAdvance([sim EXCEPT !.i = @ + 1])
    /\ shots' = shots + 1
    /\ UNCHANGED <<now, nextId, ui>>

\* simulateBattle returns and React renders: the queued updaters take effect
SimEnd ==
    /\ sim.phase = "render"
    /\ teamGrid' = pending
    /\ sim' = Idle
    /\ last' = [op |-> "render", ret |-> "true"]
    /\ UNCHANGED <<pending, now, nextId, shots, ui>>

\* the bounds of the exploration
ShipsWithin(maxShips) == TotalShips(teamGrid') <= maxShips
ShotsWithin(maxShots) == shots' <= maxShots

Next ==
    \/ \E x \in PlaceX, y \in ClickY, team \in PlaceTeams :
          \E size \in PlaceSizes, horizontal \in BOOLEAN :
              PlaceShip(x, y, size, horizontal, team) /\ ShipsWithin(MaxShips)
    \/ \E x \in ClickX, y \in ClickY, team \in Teams :
          FireShot(x, y, team) /\ ShotsWithin(MaxShots)
    \/ DecayTick(MaxTicks)
    \/ \E sync \in BOOLEAN : SimStart(1, TRUE, sync, MaxShips, MaxSimShots)
    \/ \E sync \in BOOLEAN : SimStart(5, FALSE, sync, MaxShips, MaxSimShots)
    \/ \E x \in ClickX, y \in ClickY : SimFire(x, y)
    \/ SimEnd

Spec == Init /\ [][Next]_vars

\* the same with ships placed for either team, one ship in all
NextTeams ==
    \/ \E x \in PlaceX, y \in ClickY, team \in Teams :
          \E size \in PlaceSizes, horizontal \in BOOLEAN :
              PlaceShip(x, y, size, horizontal, team) /\ ShipsWithin(MaxTeamsShips)
    \/ \E x \in ClickX, y \in ClickY, team \in Teams :
          FireShot(x, y, team) /\ ShotsWithin(MaxShots)
    \/ DecayTick(MaxTicks)
    \/ \E sync \in BOOLEAN : SimStart(5, FALSE, sync, MaxTeamsShips, MaxSimShots)
    \/ \E x \in ClickX, y \in ClickY : SimFire(x, y)
    \/ SimEnd

SpecTeams == Init /\ [][NextTeams]_vars

\* one ship of the smallest size, a simulateBattle(7) call on the rendered
\* ship, clicks after it
NextVolley ==
    \/ \E x \in PlaceX, y \in ClickY, team \in PlaceTeams, horizontal \in BOOLEAN :
          PlaceShip(x, y, SHIP_SIZES[1], horizontal, team) /\ ShipsWithin(MaxVolleyShips)
    \/ \E x \in ClickX, y \in ClickY, team \in Teams :
          FireShot(x, y, team) /\ ShotsWithin(MaxVolleyClicks)
    \/ \E sync \in BOOLEAN : SimStart(7, FALSE, sync, MaxVolleyShips, MaxVolleyShots)
    \/ \E x \in ClickX, y \in ClickY : SimFire(x, y)
    \/ SimEnd

SpecVolley == Init /\ [][NextVolley]_vars

\* placeShip and fireShot called with any coordinates
NextCalls ==
    \/ \E x \in CallX, y \in CallY, team \in Teams, horizontal \in BOOLEAN :
          PlaceShip(x, y, SHIP_SIZES[1], horizontal, team) /\ ShipsWithin(MaxCallShips)
    \/ \E x \in CallX, y \in CallY, team \in Teams :
          FireShot(x, y, team) /\ ShotsWithin(MaxCallShots)

SpecCalls == Init /\ [][NextCalls]_vars

\* shots followed by the decay timer for more than ACTIVITY_EXTENDED_LIFETIME
NextDecay ==
    \/ \E x \in ClickX, y \in ClickY, team \in Teams :
          FireShot(x, y, team) /\ ShotsWithin(MaxDecayShots)
    \/ DecayTick(MaxDecayTicks)

SpecDecay == Init /\ [][NextDecay]_vars

\* chunk sets given to updateHeatLevels: activity counts in whole shots,
\* heat levels left by an earlier call
HeatChunks == 1 .. MaxHeatChunks
HeatActivities == {a * ActivityOne : a \in 0 .. MaxHeatActivity}
HeatLevels == {0, 3}

\* updateHeatLevels applied to a chunk set
InitHeat ==
    /\ \E activity \in [HeatChunks -> HeatActivities], level \in HeatLevels :
          teamGrid = [t \in Teams |->
              IF t = "blue"
              THEN [InitialTeamGrid EXCEPT !.chunks =
                       [k \in HeatChunks |->
                           [heatLevel |-> level, lastActivity |-> StartTime,
                            activityCount |-> activity[k]]]]
              ELSE InitialTeamGrid]
    /\ pending = teamGrid
    /\ sim = Idle
    /\ ui = StartUp(NoValue)
    /\ now = StartTime
    /\ nextId = 1
    /\ shots = 0
    /\ last = [op |-> "init", ret |-> "true"]

ApplyHeat ==
    /\ teamGrid' = [teamGrid EXCEPT !["blue"].chunks = updateHeatLevels(@)]
    /\ pending' = teamGrid'
    /\ last' = [op |-> "updateHeatLevels", ret |-> "true"]
    /\ UNCHANGED <<sim, now, nextId, shots, ui>>

SpecHeat == InitHeat /\ [][ApplyHeat]_vars

\* calculateAdditionalStats applied to a registry and a number of hits:
\* destroyed ships, each taking two hits at least, and ships not destroyed
StatShip(i, destroyed) ==
    [id |-> i, owner |-> "anon", cells |-> ShipCellsAt(0, 0, SHIP_SIZES[1], TRUE),
     hits |-> IF destroyed THEN SHIP_SIZES[1] ELSE 0, destroyed |-> destroyed]

InitStats ==
    /\ \E totalHits \in 0 .. MaxStatHits, d \in 0 .. MaxStatDestroyed,
          a \in 0 .. MaxStatActive :
          /\ SHIP_SIZES[1] * d <= totalHits
          /\ teamGrid = [t \in Teams |->
                IF t = "blue"
                THEN [InitialTeamGrid EXCEPT
                         !.ships = [i \in 1 .. (d + a) |-> StatShip(i, i <= d)],
                         !.stats = [totalShips |-> d + a, totalHits |-> totalHits]]
                ELSE InitialTeamGrid]
    /\ pending = teamGrid
    /\ sim = Idle
    /\ ui = StartUp(NoValue)
    /\ now = StartTime
    /\ nextId = 1
    /\ shots = 0
    /\ last = [op |-> "init", ret |-> "true"]

\* a render: the stats are derived from the state
RenderStats ==
    /\ \E team \in Teams : last' = [op |-> "stats", ret |-> "true", stats |-> TeamStats(team)]
    /\ UNCHANGED <<teamGrid, pending, sim, now, nextId, shots, ui>>

SpecStats == InitStats /\ [][RenderStats]_vars

\* a simulateBattle(20) call on a fresh game
\* shots by click, the decay timer, and simulateBattle(1), which resets the
\* heat map and issues no action
NextLife ==
    \/ \E x \in ClickX, y \in ClickY, team \in Teams :
          FireShot(x, y, team) /\ ShotsWithin(MaxLifeShots)
    \/ DecayTick(MaxLifeTicks)
    \/ \E sync \in BOOLEAN : SimStart(1, FALSE, sync, MaxLifeShots, MaxLifeShots)
    \/ SimEnd

SpecLife == Init /\ [][NextLife]_vars

\* the decay timer when every shot was fired at StartTime: the clock reading
\* is kept at StartTime + ACTIVITY_EXTENDED_LIFETIME once it has got there,
\* from where on timeSinceActivity >= ACTIVITY_EXTENDED_LIFETIME for every
\* chunk and the tick does not depend on the reading any more
FadeTick ==
    /\ sim.phase = "idle"
    /\ now' = Min2(now + DECAY_INTERVAL, StartTime + ACTIVITY_EXTENDED_LIFETIME)
    /\ teamGrid' = [t \in Teams |-> DecayUpdater(teamGrid[t], now')]
    /\ pending' = teamGrid'
    /\ last' = [op |-> "decay", ret |-> "true"]
    /\ UNCHANGED <<sim, nextId, shots, ui>>

\* shots first, then the decay timer alone, which keeps firing
NextFade ==
    \/ \E x \in ClickX, y \in ClickY, team \in Teams :
          now = StartTime /\ FireShot(x, y, team) /\ ShotsWithin(MaxFadeShots)
    \/ FadeTick

SpecFade == Init /\ [][NextFade]_vars /\ WF_vars(FadeTick)

\* simulateBattle(1, {testAction: {type, x, y, shipSize, isHorizontal}}), as
\* BattleSimulation's generators call it: the heat maps are not reset, and
\* the loops run ShipsPerTeam(1) and FiresPerTeam(1) times; testAction is
\* read nowhere else
SimTestAction(type, x, y, shipSize, isHorizontal, sync) ==
    /\ sim.phase = "idle"
    /\ pending' = teamGrid
    /\ teamGrid' = teamGrid
    /\ sim' = SimAdvance([phase |-> "shipsBlue", i |-> 0, n |-> 1, sync |-> sync])
    /\ last' = [op |-> "testAction", ret |-> "true", type |-> type, x |-> x, y |-> y,
                shipSize |-> shipSize, isHorizontal |-> isHorizontal]
    /\ UNCHANGED <<now, nextId, shots, ui>>

TestTypes == {"PLACE_SHIP", "FIRE"}

\* clicks, and the generators' calls
NextTest ==
    \/ \E x \in PlaceX, y \in ClickY, team \in PlaceTeams, horizontal \in BOOLEAN :
          PlaceShip(x, y, SHIP_SIZES[1], horizontal, team) /\ ShipsWithin(MaxTestShips)
    \/ \E x \in ClickX, y \in ClickY, team \in Teams :
          FireShot(x, y, team) /\ ShotsWithin(MaxTestShots)
    \/ \E type \in TestTypes, x \in ClickX, y \in ClickY, isHorizontal \in BOOLEAN,
          sync \in BOOLEAN :
          SimTestAction(type, x, y, SHIP_SIZES[1], isHorizontal, sync)
    \/ SimEnd

SpecTest == Init /\ [][NextTest]_vars

\* the preview and the placement check applied to a grid whose first cells
\* are occupied or not and carry no cooldown or one that ends about now
PreviewCells == {<<x, 0>> : x \in 0 .. MaxPreviewX}
PreviewCooldowns == {0} \cup ((StartTime - MaxSkew) .. (StartTime + MaxSkew))

InitPreview ==
    /\ \E occ \in [PreviewCells -> BOOLEAN], cd \in [PreviewCells -> PreviewCooldowns] :
          teamGrid = [t \in Teams |->
             [InitialTeamGrid EXCEPT
                 !.grid = [c \in Cells |->
                             IF c \in PreviewCells /\ t = "blue"
                             THEN [occupied |-> occ[c], hit |-> FALSE, ship |-> 0,
                                   cooldownUntil |-> cd[c]]
                             ELSE EmptyCell]]]
    /\ pending = teamGrid
    /\ sim = Idle
    /\ ui = StartUp(NoValue)
    /\ now = StartTime
    /\ nextId = 1
    /\ shots = 0
    /\ last = [op |-> "init", ret |-> "true"]

\* the pointer hovers over (x, y) in defend view: the preview is drawn
HoverCell(x, y, size, horizontal, team) ==
    /\ last' = [op |-> "preview",
                ret |-> IF drawShipPreview(teamGrid[team].grid, x, y, size, horizontal, now)
                        THEN "true" ELSE "false",
                check |-> IF isValidShipPlacement(teamGrid[team].grid,
                                                  ShipCellsAt(x, y, size, horizontal), now)
                          THEN "true" ELSE "false"]
    /\ UNCHANGED <<teamGrid, pending, sim, now, nextId, shots, ui>>

NextPreview ==
    \E x \in CallX, y \in CallY, horizontal \in BOOLEAN, team \in Teams :
        HoverCell(x, y, SHIP_SIZES[1], horizontal, team)

SpecPreview == InitPreview /\ [][NextPreview]_vars

\* ------------------------------ TeamSelectionProvider and BattleField ----

\* variant: the effect writes whether or not a team has been chosen
PersistEffect_Always(u) ==
    [u EXCEPT !.store = u.selectedTeam, !.effects = FALSE]

\* the effect that persists the choice
PersistEffect(u) ==
    [u EXCEPT !.store = IF u.hasSelectedTeam THEN u.selectedTeam ELSE @,
              !.effects = FALSE]

\* the render after a handler: the effect is scheduled when one of its
\* dependencies [selectedTeam, hasSelectedTeam] has changed
Rendered(u, v) ==
    [v EXCEPT !.effects = \/ u.effects
                          \/ u.selectedTeam # v.selectedTeam
                          \/ u.hasSelectedTeam # v.hasSelectedTeam]

\* the passive effects of the last render; they run before the next event
RunEffects ==
    /\ ui.effects
    /\ ui' = PersistEffect(ui)
    /\ last' = [op |-> "useEffect", ret |-> "true", after |-> last.op]
    /\ UNCHANGED <<teamGrid, pending, sim, now, nextId, shots>>

\* setSelectedTeam of the context value
handleTeamSelection(team) ==
    /\ ~ui.effects
    /\ ui' = Rendered(ui, [ui EXCEPT !.selectedTeam = team, !.hasSelectedTeam = TRUE])
    /\ last' = [op |-> "setSelectedTeam", ret |-> "true"]
    /\ UNCHANGED <<teamGrid, pending, sim, now, nextId, shots>>

resetTeamSelection ==
    /\ ~ui.effects
    /\ ui' = Rendered(ui, [ui EXCEPT !.store = NoValue, !.hasSelectedTeam = FALSE])
    /\ last' = [op |-> "resetTeamSelection", ret |-> "true"]
    /\ UNCHANGED <<teamGrid, pending, sim, now, nextId, shots>>

setActiveView(view) ==
    /\ ~ui.effects
    /\ ui' = [ui EXCEPT !.activeView = view]
    /\ last' = [op |-> "setActiveView", ret |-> "true"]
    /\ UNCHANGED <<teamGrid, pending, sim, now, nextId, shots>>

\* the grid the Grid component displays
getActiveGrid(u) ==
    IF u.activeView = "attack" THEN Opposite(u.selectedTeam) ELSE u.selectedTeam

\* BattleField's cell click handler, src/App.tsx: it follows gameMode
handleCellClick(x, y, selectedShipSize, isHorizontal) ==
    /\ ~ui.effects
    /\ ui.hasSelectedTeam
    /\ IF ui.gameMode = "place"
       THEN /\ sim.phase = "idle"
            /\ LET r == processPlace(GridsOf(teamGrid), teamGrid,
                                     ShipCellsAt(x, y, selectedShipSize, isHorizontal),
                                     nextId, "player", ui.selectedTeam, now)
               IN  /\ teamGrid' = r.q
                   /\ pending' = r.q
                   /\ nextId' = IF r.ret = "true" THEN nextId + 1 ELSE nextId
                   /\ last' = [op |-> "placeShip", ret |-> r.ret]
                   /\ ui' = IF r.ret = "true" THEN [ui EXCEPT !.gameMode = "fire"] ELSE ui
            /\ UNCHANGED <<sim, now, shots>>
       ELSE FireShot(x, y, ui.selectedTeam)

\* BattleField's cell click handler of the App component that derives the
\* mode from the active view
handleCellClickByView(x, y, selectedShipSize, isHorizontal) ==
    /\ ~ui.effects
    /\ ui.hasSelectedTeam
    /\ IF ui.activeView = "defend"
       THEN PlaceShip(x, y, selectedShipSize, isHorizontal, ui.selectedTeam)
       ELSE FireShot(x, y, ui.selectedTeam)

InitUi ==
    /\ teamGrid = [t \in Teams |-> InitialTeamGrid]
    /\ pending = teamGrid
    /\ sim = Idle
    /\ \E store \in StoredValues : ui = StartUp(store)
    /\ now = StartTime
    /\ nextId = 1
    /\ shots = 0
    /\ last = [op |-> "init", ret |-> "true"]

\* a cell click, by either BattleField
CellClick ==
    \E x \in ClickX, y \in ClickY, horizontal \in BOOLEAN :
        /\ \/ handleCellClick(x, y, SHIP_SIZES[1], horizontal)
           \/ handleCellClickByView(x, y, SHIP_SIZES[1], horizontal)
        /\ ShipsWithin(MaxUiShips)
        /\ ShotsWithin(MaxUiShots)

NextUi ==
    \/ RunEffects
    \/ \E team \in Teams : handleTeamSelection(team)
    \/ resetTeamSelection
    \/ \E view \in GameViews : setActiveView(view)
    \/ \E x \in ClickX, y \in ClickY, horizontal \in BOOLEAN :
          /\ handleCellClick(x, y, SHIP_SIZES[1], horizontal)
          /\ ShipsWithin(MaxUiShips)
          /\ ShotsWithin(MaxUiShots)
    \/ \E x \in ClickX, y \in ClickY, horizontal \in BOOLEAN :
          /\ handleCellClickByView(x, y, SHIP_SIZES[1], horizontal)
          /\ ShipsWithin(MaxUiShips)
          /\ ShotsWithin(MaxUiShots)

SpecUi == InitUi /\ [][NextUi]_vars

NextBatch ==
    \/ \E sync \in BOOLEAN : SimStart(20, FALSE, sync, MaxBatchShips, MaxBatchShots)
    \/ \E i \in 1 .. MaxBatchSizeIdx : SimPlace(i, MaxBatchX)
    \/ \E x \in 0 .. MaxBatchFireX, y \in ClickY : SimFire(x, y)
    \/ SimEnd

SpecBatch == Init /\ [][NextBatch]_vars

\* ------------------------------------------------------------ claims --
\* the cells a placement at (x, y) covers
Covered(x, y, size, horizontal) ==
    {<<x + (IF horizontal THEN d ELSE 0), y + (IF horizontal THEN 0 ELSE d)>> :
        d \in 0 .. (size - 1)}

OnGrid(c) == c[1] \in 0 .. (GRID_SIZE - 1) /\ c[2] \in 0 .. (GRID_SIZE - 1)

UnderCooldown(team, c) ==
    teamGrid[team].grid[c].cooldownUntil # 0 /\ teamGrid[team].grid[c].cooldownUntil >= now

C1_Blocked(x, y, size, horizontal, team) ==
    \E c \in Covered(x, y, size, horizontal) :
        \/ ~OnGrid(c)
        \/ teamGrid[team].grid[c].occupied
        \/ UnderCooldown(team, c)

\* C1: placeShip returns false and changes nothing when a cell of the ship
\* would be off the grid, is occupied on the placing team's grid, or has a
\* cooldownUntil that is not yet before the current time.
C1_PlaceShipRejected ==
    [][\/ (last'.ret = "false" /\ teamGrid' = teamGrid /\ pending' = pending)
       \/ \A x \in PlaceX, y \in ClickY, size \in PlaceSizes, horizontal \in BOOLEAN,
             team \in Teams :
             ~(C1_Blocked(x, y, size, horizontal, team)
                 /\ PlaceShip(x, y, size, horizontal, team))]_vars

\* a placement has been rejected in a state where some placement is on the
\* grid, on free cells, and stopped by a running cooldown alone
C1_Witness ==
    /\ last = [op |-> "placeShip", ret |-> "false"]
    /\ \E x \in PlaceX, y \in ClickY, size \in PlaceSizes, horizontal \in BOOLEAN,
          team \in Teams :
          /\ \A c \in Covered(x, y, size, horizontal) :
                OnGrid(c) /\ ~teamGrid[team].grid[c].occupied
          /\ \E c \in Covered(x, y, size, horizontal) : UnderCooldown(team, c)

\* C2: a placeShip that succeeds returns true, marks exactly the ship's cells
\* occupied with a reference to the new ship, leaves every other cell as it
\* was, appends one ship with these cells, no hits and destroyed = false, and
\* raises the team's totalShips by one.
C2_PlaceShipPlaces ==
    [][\A x \in PlaceX, y \in ClickY, size \in PlaceSizes, horizontal \in BOOLEAN,
          team \in Teams :
          (~C1_Blocked(x, y, size, horizontal, team)
              /\ PlaceShip(x, y, size, horizontal, team))
              => LET old == teamGrid[team]
                     new == teamGrid'[team]
                     added == new.ships[Len(new.ships)]
                 IN  /\ last'.ret = "true"
                     /\ \A c \in Cells :
                           IF c \in Covered(x, y, size, horizontal)
                           THEN new.grid[c].occupied /\ new.grid[c].ship = added.id
                           ELSE new.grid[c] = old.grid[c]
                     /\ Len(new.ships) = Len(old.ships) + 1
                     /\ \A i \in 1 .. Len(old.ships) :
                           new.ships[i] = old.ships[i] /\ old.ships[i].id # added.id
                     /\ Range(added.cells) = Covered(x, y, size, horizontal)
                     /\ Len(added.cells) = size
                     /\ added.hits = 0
                     /\ added.destroyed = FALSE
                     /\ new.stats.totalShips = old.stats.totalShips + 1
                     /\ new.stats.totalHits = old.stats.totalHits]_vars

C2_Witness ==
    /\ last = [op |-> "placeShip", ret |-> "true"]
    /\ \E team \in Teams :
          /\ teamGrid[team].stats.totalShips = 2
          /\ Len(teamGrid[team].ships) = 2
          /\ \A i \in 1 .. 2 : \A c \in Range(teamGrid[team].ships[i].cells) :
                teamGrid[team].grid[c].ship = teamGrid[team].ships[i].id

\* C3: fireShot at a cell of the opposing grid that is not hit returns true,
\* sets the cell's hit, raises the opposing team's totalHits by one and, if
\* and only if the cell is occupied, raises by one the hits of the ship the
\* cell refers to and of no other ship.
C3_FireShotHits ==
    [][\A x \in ClickX, y \in ClickY, team \in Teams :
          (~teamGrid[Opposite(team)].grid[<<x, y>>].hit /\ FireShot(x, y, team))
              => LET old == teamGrid[Opposite(team)]
                     new == teamGrid'[Opposite(team)]
                     cell == old.grid[<<x, y>>]
                 IN  /\ last'.ret = "true"
                     /\ new.grid[<<x, y>>].hit
                     /\ new.stats.totalHits = old.stats.totalHits + 1
                     /\ Len(new.ships) = Len(old.ships)
                     /\ \A i \in 1 .. Len(old.ships) :
                           new.ships[i].hits =
                               old.ships[i].hits
                               + (IF cell.occupied /\ cell.ship = old.ships[i].id
                                  THEN 1 ELSE 0)]_vars

C3_Witness ==
    /\ last = [op |-> "fireShot", ret |-> "true"]
    /\ \E team \in Teams : \E i \in 1 .. Len(teamGrid[team].ships) :
          /\ teamGrid[team].ships[i].hits = 1
          /\ teamGrid[team].stats.totalHits = 1

\* what a shot at (x, y) adds to the target team's chunks: one unit of
\* activity and the time of the shot on the chunk of (x, y), nothing on the
\* activity or the time of any other chunk
ActivityRecorded(old, new, x, y) ==
    \A k \in ChunkIds :
        IF k = <<x \div CELLS_PER_CHUNK, y \div CELLS_PER_CHUNK>>
        THEN /\ new.chunks[k].activityCount = old.chunks[k].activityCount + ActivityOne
             /\ new.chunks[k].lastActivity = now
        ELSE /\ new.chunks[k].activityCount = old.chunks[k].activityCount
             /\ new.chunks[k].lastActivity = old.chunks[k].lastActivity

\* C4 as stated: fireShot at a cell that is already hit returns false and
\* leaves the whole state of both teams, chunks included, as it was.
C4_RepeatedShotNoOp ==
    [][\A x \in ClickX, y \in ClickY, team \in Teams :
          (teamGrid[Opposite(team)].grid[<<x, y>>].hit /\ FireShot(x, y, team))
              => (last'.ret = "false" /\ teamGrid' = teamGrid)]_vars

\* C4: fireShot at a cell of the opposing grid that is already hit returns
\* false and leaves the grid, the ships and the stats of both teams and the
\* chunks of the firing team as they were; of the opposing team's chunks it
\* changes the activity of the target's chunk, which the shot is added to,
\* and heat levels.
C4_RepeatedShot ==
    [][\A x \in ClickX, y \in ClickY, team \in Teams :
          (teamGrid[Opposite(team)].grid[<<x, y>>].hit /\ FireShot(x, y, team))
              => LET old == teamGrid[Opposite(team)]
                     new == teamGrid'[Opposite(team)]
                 IN  /\ last'.ret = "false"
                     /\ teamGrid'[team] = teamGrid[team]
                     /\ new.grid = old.grid
                     /\ new.ships = old.ships
                     /\ new.stats = old.stats
                     /\ ActivityRecorded(old, new, x, y)]_vars

\* a repeated shot has been refused: its cell is hit once and its chunk
\* holds the activity of two shots
C4_Witness ==
    /\ last = [op |-> "fireShot", ret |-> "false"]
    /\ \E team \in Teams, x \in ClickX, y \in ClickY :
          /\ teamGrid[team].grid[<<x, y>>].hit
          /\ teamGrid[team].stats.totalHits = 1
          /\ teamGrid[team].chunks[<<x \div CELLS_PER_CHUNK, y \div CELLS_PER_CHUNK>>]
                 .activityCount = 2 * ActivityOne

\* C5: every fireShot at a cell of the grid adds one to the activityCount of
\* the opposing team's chunk (floor(x / CELLS_PER_CHUNK), floor(y /
\* CELLS_PER_CHUNK)) and sets its lastActivity to the current time, whether
\* or not the cell was already hit; the activityCount of every other chunk
\* of either team stays as it was.
C5_ShotRecordsActivity ==
    [][\A x \in ClickX, y \in ClickY, team \in Teams :
          FireShot(x, y, team)
              => /\ ActivityRecorded(teamGrid[Opposite(team)], teamGrid'[Opposite(team)], x, y)
                 /\ \A k \in ChunkIds :
                       teamGrid'[team].chunks[k].activityCount =
                           teamGrid[team].chunks[k].activityCount]_vars

\* a shot at a hit cell has been refused after the clock has advanced, and
\* its chunk holds the activity of both shots and the time of the second
C5_Witness ==
    /\ last = [op |-> "fireShot", ret |-> "false"]
    /\ now > StartTime
    /\ \E team \in Teams, k \in ChunkIds :
          /\ teamGrid[team].chunks[k].activityCount = 2 * ActivityOne
          /\ teamGrid[team].chunks[k].lastActivity = now

\* C6: a fireShot by team T changes the state of the opposing team only and
\* never that of T; a placeShip by team T changes the state of T only and
\* never that of the opposing team.
C6_TeamsIndependent ==
    [][/\ \A x \in ClickX, y \in ClickY, team \in Teams :
             teamGrid'[team] = teamGrid[team] \/ ~FireShot(x, y, team)
       /\ \A x \in PlaceX, y \in ClickY, size \in PlaceSizes, horizontal \in BOOLEAN,
             team \in Teams :
             \/ teamGrid'[Opposite(team)] = teamGrid[Opposite(team)]
             \/ ~PlaceShip(x, y, size, horizontal, team)]_vars

\* each team has acted on a state the other has left alone: one has a ship
\* and no hit, the other a hit and no ship
C6_Witness ==
    \E team \in Teams :
        /\ teamGrid[team].stats.totalShips = 1
        /\ teamGrid[team].stats.totalHits = 0
        /\ teamGrid[Opposite(team)].stats.totalShips = 0
        /\ teamGrid[Opposite(team)].stats.totalHits = 1
        /\ \A k \in ChunkIds : teamGrid[team].chunks[k].activityCount = 0

\* the cells of a ship and the cells of the grid next to them, diagonals
\* included
Area(shipCells) ==
    {c \in Cells : \E i \in 1 .. Len(shipCells) :
        /\ c[1] >= shipCells[i][1] - 1 /\ c[1] <= shipCells[i][1] + 1
        /\ c[2] >= shipCells[i][2] - 1 /\ c[2] <= shipCells[i][2] + 1}

\* the ships of the target team that a shot at (x, y) by team destroys
Destroys(x, y, team) ==
    LET target == teamGrid[Opposite(team)]
        cell == target.grid[<<x, y>>]
    IN  {i \in 1 .. Len(target.ships) :
            /\ ~cell.hit
            /\ cell.occupied
            /\ cell.ship = target.ships[i].id
            /\ target.ships[i].hits + 1 = Len(target.ships[i].cells)}

\* C7: when a fireShot brings a ship's hits to the number of its cells, the
\* ship's cells and every cell of the grid next to one of them, diagonals
\* included, get cooldownUntil = current time + DESTROYED_TERRITORY_COOLDOWN
\* on that team's grid; no other cell's cooldownUntil changes.
C7_DestructionSetsCooldown ==
    [][\A x \in ClickX, y \in ClickY, team \in Teams :
          \A i \in Destroys(x, y, team) :
              FireShot(x, y, team)
                  => LET old == teamGrid[Opposite(team)]
                         new == teamGrid'[Opposite(team)]
                     IN  \A c \in Cells :
                            new.grid[c].cooldownUntil =
                                IF c \in Area(old.ships[i].cells)
                                THEN now + DESTROYED_TERRITORY_COOLDOWN
                                ELSE old.grid[c].cooldownUntil]_vars

\* a destroyed ship of the smallest size lies at (x, y), horizontal, and its
\* cells carry a cooldown timestamp
DestroyedAt(x, y, team) ==
    \E i \in 1 .. Len(teamGrid[team].ships) :
        /\ teamGrid[team].ships[i].destroyed
        /\ Range(teamGrid[team].ships[i].cells) = Covered(x, y, SHIP_SIZES[1], TRUE)
        /\ \A c \in Covered(x, y, SHIP_SIZES[1], TRUE) :
              teamGrid[team].grid[c].cooldownUntil # 0

\* C8: after a two-cell ship has been destroyed, placeShip on its cells
\* returns false and changes nothing while the current time is within the
\* cooldown, and returns true once the current time is past the cooldown
\* timestamp.
C8_ReplaceAfterCooldown ==
    [][\A x \in PlaceX, y \in ClickY, team \in Teams :
          (DestroyedAt(x, y, team) /\ PlaceShip(x, y, SHIP_SIZES[1], TRUE, team))
              => IF \E c \in Covered(x, y, SHIP_SIZES[1], TRUE) : UnderCooldown(team, c)
                 THEN last'.ret = "false" /\ teamGrid' = teamGrid
                 ELSE last'.ret = "true"]_vars

\* C9: a cell's cooldownUntil changes only by the write made when a ship is
\* destroyed, which sets it to current time + DESTROYED_TERRITORY_COOLDOWN,
\* later than the value it had; nothing else removes, shortens or alters it.
C9_CooldownOnlyByDestruction ==
    [][\A team \in Teams, c \in Cells :
          LET old == teamGrid[team]
              new == teamGrid'[team]
          IN  new.grid[c].cooldownUntil # old.grid[c].cooldownUntil
                  => /\ new.grid[c].cooldownUntil = now + DESTROYED_TERRITORY_COOLDOWN
                     /\ new.grid[c].cooldownUntil > old.grid[c].cooldownUntil
                     /\ \E i \in 1 .. Len(old.ships) :
                           /\ ~old.ships[i].destroyed
                           /\ new.ships[i].destroyed
                           /\ c \in Area(old.ships[i].cells)]_vars

\* C10: no two ships of a team have a cell in common, also when several
\* PLACE_SHIP actions are issued within one simulateBattle call, before any
\* render.
C10_ShipsNeverOverlap ==
    \A team \in Teams :
        \A i, j \in 1 .. Len(teamGrid[team].ships) :
            i # j => Range(teamGrid[team].ships[i].cells)
                         \cap Range(teamGrid[team].ships[j].cells) = {}

\* C11: in every state, on either team's grid, a cell is occupied if and
\* only if it carries a ship reference, and the reference names a ship of
\* the same team's registry whose cells include the cell.
C11_OccupiedIffShipRef ==
    \A team \in Teams, c \in Cells :
        LET cell == teamGrid[team].grid[c]
        IN  /\ cell.occupied <=> cell.ship # 0
            /\ cell.occupied =>
                  \E i \in 1 .. Len(teamGrid[team].ships) :
                      /\ teamGrid[team].ships[i].id = cell.ship
                      /\ \E n \in 1 .. Len(teamGrid[team].ships[i].cells) :
                            teamGrid[team].ships[i].cells[n] = c

\* two ships placed in one simulateBattle call share a cell, which refers to
\* the later one
C11_Witness ==
    \E team \in Teams, c \in Cells :
        /\ teamGrid[team].grid[c].occupied
        /\ Len(teamGrid[team].ships) >= 2
        /\ teamGrid[team].grid[c].ship = teamGrid[team].ships[2].id
        /\ c \in Range(teamGrid[team].ships[1].cells)

ShipConsistent(ship) ==
    /\ ship.hits >= 0
    /\ ship.hits <= Len(ship.cells)
    /\ ship.destroyed = (ship.hits = Len(ship.cells))

\* C12: in every state every ship of either team has 0 <= hits <=
\* cells.length and destroyed = (hits = cells.length), and a ship that is
\* destroyed stays destroyed.
C12_ShipHitsConsistent ==
    /\ [](\A team \in Teams : \A i \in 1 .. Len(teamGrid[team].ships) :
             ShipConsistent(teamGrid[team].ships[i]))
    /\ [][\A team \in Teams : \A i \in 1 .. Len(teamGrid[team].ships) :
             teamGrid[team].ships[i].destroyed => teamGrid'[team].ships[i].destroyed]_vars

\* C13: placeShip and fireShot never raise: for all integers x and y, on or
\* off the grid, and every team, they return a boolean, and a call that
\* returns false leaves the state as it was.
C13_CallsNeverRaise ==
    [][\/ /\ last'.ret \in {"true", "false"}
          /\ last'.ret = "false" => teamGrid' = teamGrid
       \/ \A x \in CallX, y \in CallY, team \in Teams :
             /\ ~FireShot(x, y, team)
             /\ \A horizontal \in BOOLEAN :
                   ~PlaceShip(x, y, SHIP_SIZES[1], horizontal, team)]_vars

\* C14: a decay tick never raises a chunk's activityCount and never makes
\* it negative, and in every state every chunk with activityCount 0 has
\* heatLevel 0.
C14_DecayNeverRaises ==
    /\ [](\A team \in Teams, k \in ChunkIds :
             teamGrid[team].chunks[k].activityCount = 0
                 => teamGrid[team].chunks[k].heatLevel = 0)
    /\ [][\/ \A team \in Teams, k \in ChunkIds :
                /\ teamGrid'[team].chunks[k].activityCount
                       <= teamGrid[team].chunks[k].activityCount
                /\ teamGrid'[team].chunks[k].activityCount >= 0
          \/ ~DecayTick(MaxDecayTicks)]_vars

\* a decay tick has run on a team with a chunk whose activity has decayed
\* below one shot and a chunk that has none
C14_Witness ==
    /\ last.op = "decay"
    /\ \E team \in Teams, k, j \in ChunkIds :
          /\ teamGrid[team].chunks[k].activityCount > 0
          /\ teamGrid[team].chunks[k].activityCount < ActivityOne
          /\ teamGrid[team].chunks[k].heatLevel > 0
          /\ teamGrid[team].chunks[j].activityCount = 0

\* C15: updateHeatLevels is idempotent: applied to its own result it
\* assigns every chunk the heatLevel it assigned the first time; and it
\* never changes a chunk's activityCount, lastActivity or place in the set.
C15_HeatLevelsIdempotent ==
    LET chunks == teamGrid["blue"].chunks
        once == updateHeatLevels(chunks)
        twice == updateHeatLevels(once)
    IN  /\ DOMAIN once = DOMAIN chunks
        /\ \A k \in DOMAIN chunks :
              /\ twice[k].heatLevel = once[k].heatLevel
              /\ once[k].activityCount = chunks[k].activityCount
              /\ once[k].lastActivity = chunks[k].lastActivity

\* updateHeatLevels has run on a set with hot, warm and cold chunks that all
\* came in hot
C15_Witness ==
    /\ last.op = "updateHeatLevels"
    /\ \E k, j, m \in DOMAIN teamGrid["blue"].chunks :
          /\ teamGrid["blue"].chunks[k].heatLevel = 3
          /\ teamGrid["blue"].chunks[j].heatLevel = 2
          /\ teamGrid["blue"].chunks[m].heatLevel = 0

ActiveChunks(chunks) == {k \in DOMAIN chunks : chunks[k].activityCount > 0}

\* C16: after updateHeatLevels over a chunk set with A >= 1 active chunks,
\* at least max(1, floor(0.20 * A)) chunks have heatLevel 3, every chunk
\* whose activityCount is the maximum has heatLevel 3, and no chunk with
\* activityCount 0 has a heatLevel above 0.
C16_HotChunks ==
    [][LET old == teamGrid["blue"].chunks
           new == teamGrid'["blue"].chunks
           A == Cardinality(ActiveChunks(old))
           fifth == CHOOSE f \in 0 .. A : 5 * f <= A /\ A < 5 * (f + 1)
       IN  (ApplyHeat /\ A >= 1)
               => /\ Cardinality({k \in DOMAIN new : new[k].heatLevel = 3})
                         >= (IF fifth > 1 THEN fifth ELSE 1)
                  /\ \A k \in DOMAIN new :
                        (\A j \in DOMAIN old :
                             old[j].activityCount <= old[k].activityCount)
                            => new[k].heatLevel = 3
                  /\ \A k \in DOMAIN new :
                        old[k].activityCount = 0 => new[k].heatLevel = 0]_vars

\* every chunk of the set is active, and exactly a fifth of them are hot
C16_Witness ==
    /\ last.op = "updateHeatLevels"
    /\ Cardinality(ActiveChunks(teamGrid["blue"].chunks)) = MaxHeatChunks
    /\ Cardinality({k \in DOMAIN teamGrid["blue"].chunks :
                       teamGrid["blue"].chunks[k].heatLevel = 3}) * 5 = MaxHeatChunks

\* C17: in every state a team's hitRatio is round(100 * destroyedShips /
\* totalHits), a tie going up, when totalHits > 0 and 0 when totalHits = 0,
\* destroyedShips being the number of ships flagged destroyed in the team's
\* registry; and totalHits = 0 implies destroyedShips = 0.
C17_HitRatioRounded ==
    \A team \in Teams :
        LET t == teamGrid[team].stats.totalHits
            d == Cardinality({i \in 1 .. Len(teamGrid[team].ships) :
                                 teamGrid[team].ships[i].destroyed})
            r == TeamStats(team).hitRatio
        IN  /\ t > 0 => (2 * t * r - t <= 200 * d /\ 200 * d < 2 * t * r + t)
            /\ t = 0 => (r = 0 /\ d = 0)

\* C18: a placeShip call, accepted or rejected, leaves every chunk record of
\* both teams (activityCount, lastActivity, heatLevel) as it was.
C18_PlaceShipKeepsChunks ==
    [][\/ \A t \in Teams : /\ teamGrid'[t].chunks = teamGrid[t].chunks
                           /\ pending'[t].chunks = pending[t].chunks
       \/ last'.op # "placeShip"
       \/ ~\E x \in PlaceX, y \in ClickY, size \in PlaceSizes, horizontal \in BOOLEAN,
             team \in Teams : PlaceShip(x, y, size, horizontal, team)]_vars

\* a rejected placement after an accepted one, on a board with recorded activity
C18_Witness ==
    /\ last = [op |-> "placeShip", ret |-> "false"]
    /\ \E team \in Teams :
          /\ Len(teamGrid[team].ships) = 1
          /\ \E k \in ChunkIds : teamGrid[team].chunks[k].activityCount > 0

\* C19: a team's ship registry is append-only: no step removes or reorders a
\* ship or changes a ship's id, owner or cells; and in every state totalShips
\* is the length of the registry, which is activeShips + destroyedShips.
C19_RegistryAppendOnly ==
    /\ [](\A team \in Teams :
             LET g == teamGrid[team]
                 st == TeamStats(team)
             IN  /\ g.stats.totalShips = Len(g.ships)
                 /\ Len(g.ships) = st.activeShips + st.destroyedShips)
    /\ [][\A team \in Teams :
             LET old == teamGrid[team].ships
                 new == teamGrid'[team].ships
             IN  /\ Len(new) >= Len(old)
                 /\ \A i \in 1 .. Len(old) :
                       /\ new[i].id = old[i].id
                       /\ new[i].owner = old[i].owner
                       /\ new[i].cells = old[i].cells]_vars

\* a ship was destroyed and another one placed after it
C19_Witness ==
    /\ last = [op |-> "placeShip", ret |-> "true"]
    /\ \E team \in Teams :
          /\ Len(teamGrid[team].ships) = 2
          /\ teamGrid[team].ships[1].destroyed
          /\ ~teamGrid[team].ships[2].destroyed
          /\ teamGrid[team].stats.totalShips = 2
          /\ TeamStats(team).activeShips = 1

\* C20: each cell is resolved at most once: a fire inside a simulateBattle
\* call at a cell that an earlier fire has already resolved, be it in the same
\* call before the render, returns false and adds nothing to totalHits nor to
\* the hit count of any ship of the target team.
C20_CellResolvedOnce ==
    [][\A x \in ClickX, y \in ClickY :
          LET target == IF sim.phase = "fireBlue" THEN "red" ELSE "blue"
          IN  (/\ sim.phase \in {"fireBlue", "fireRed"}
               /\ pending[target].grid[<<x, y>>].hit
               /\ SimFire(x, y))
                 => /\ last'.ret = "false"
                    /\ pending'[target].stats.totalHits = pending[target].stats.totalHits
                    /\ \A i \in 1 .. Len(pending[target].ships) :
                          pending'[target].ships[i].hits = pending[target].ships[i].hits]_vars

\* C21: in every state a team's totalHits is the number of cells of its grid
\* with hit = true, and a cell's hit flag, once true, is never reset by a later
\* step, a successful placement on a missed cell included.
C21_HitsCounted ==
    /\ [](\A team \in Teams :
             teamGrid[team].stats.totalHits
                 = Cardinality({c \in Cells : teamGrid[team].grid[c].hit}))
    /\ [][\A team \in Teams : \A c \in Cells :
             teamGrid[team].grid[c].hit => teamGrid'[team].grid[c].hit]_vars

\* C22: heatLevel is derived: in every state, rendered or queued, each team's
\* chunk set is a fixed point of updateHeatLevels and every heatLevel is one
\* of 0, 1, 2, 3.
C22_HeatDerived ==
    \A team \in Teams :
        /\ \A k \in ChunkIds : teamGrid[team].chunks[k].heatLevel \in 0 .. 3
        /\ updateHeatLevels(teamGrid[team].chunks) = teamGrid[team].chunks
        /\ updateHeatLevels(pending[team].chunks) = pending[team].chunks

\* a decay tick has lowered one of two active chunks of a team below the
\* other: the older one is warm, the newer one hot
C22_Witness ==
    /\ last.op = "decay"
    /\ shots = MaxLifeShots
    /\ \E team \in Teams, k, j \in ChunkIds :
          /\ teamGrid[team].chunks[k].heatLevel = 3
          /\ teamGrid[team].chunks[j].heatLevel = 2
          /\ teamGrid[team].chunks[j].activityCount < ActivityOne

\* C23: heat fades completely: once the shots are over and the decay timer
\* runs, every chunk's activityCount eventually is 0 and its heatLevel 0.
C23_HeatFades ==
    (now > StartTime)
        ~> (\A team \in Teams, k \in ChunkIds :
               /\ teamGrid[team].chunks[k].activityCount = 0
               /\ teamGrid[team].chunks[k].heatLevel = 0)

\* the multiplier a tick at time t chooses for a chunk, by age
RateByAge(chunk, t) ==
    IF t - chunk.lastActivity < ACTIVITY_LIFETIME THEN SUPER_SLOW_DECAY_RATE
    ELSE IF t - chunk.lastActivity < ACTIVITY_EXTENDED_LIFETIME THEN SLOW_DECAY_RATE
    ELSE FINAL_DECAY_RATE

Decayed(chunk, t) == (chunk.activityCount * RateByAge(chunk, t)) \div 1000

\* a decay tick changes no lastActivity, no grid cell, no ship and no stats
DecayFrame ==
    \A team \in Teams :
        /\ teamGrid'[team].grid = teamGrid[team].grid
        /\ teamGrid'[team].ships = teamGrid[team].ships
        /\ teamGrid'[team].stats = teamGrid[team].stats
        /\ \A k \in ChunkIds :
              teamGrid'[team].chunks[k].lastActivity = teamGrid[team].chunks[k].lastActivity

\* C24 as stated: a decay tick leaves unchanged every chunk whose lastActivity
\* is at most 60 s before the tick, multiplies the activityCount of each older
\* active chunk by the multiplier of its age, and changes no lastActivity, grid
\* cell, ship or stats.
C24_DecayAppliesMultiplier ==
    [][\/ /\ DecayFrame
          /\ \A team \in Teams, k \in ChunkIds :
                LET old == teamGrid[team].chunks[k]
                    new == teamGrid'[team].chunks[k]
                IN  IF old.activityCount = 0 \/ now' - old.lastActivity <= NO_DECAY_PERIOD
                    THEN new = old
                    ELSE new.activityCount = Decayed(old, now')
       \/ ~DecayTick(MaxDecayTicks)]_vars

\* C24, amended: a decay tick leaves the activityCount of every chunk whose
\* lastActivity is at most 60 s before the tick as it is; for each older active
\* chunk it takes the product with the multiplier of its age, and the
\* activityCount becomes 0 if the product is below 0.1, the product if it is
\* more than 0.01 below the old value, and stays as it is otherwise; it changes
\* no lastActivity, grid cell, ship or stats.
C24_DecayStep ==
    [][\/ /\ DecayFrame
          /\ \A team \in Teams, k \in ChunkIds :
                LET old == teamGrid[team].chunks[k]
                    new == teamGrid'[team].chunks[k]
                    p == Decayed(old, now')
                IN  new.activityCount =
                        IF old.activityCount = 0
                              \/ now' - old.lastActivity <= NO_DECAY_PERIOD
                        THEN old.activityCount
                        ELSE IF p * 10 < ActivityOne THEN 0
                        ELSE IF (old.activityCount - p) * 100 > ActivityOne THEN p
                        ELSE old.activityCount
       \/ ~DecayTick(MaxDecayTicks)]_vars

\* a tick has passed over a chunk in its first minute and over a chunk in its
\* second minute, whose product was too close to the old value to be kept
C24_Witness ==
    /\ last.op = "decay"
    /\ \E team \in Teams, k, j \in ChunkIds :
          /\ teamGrid[team].chunks[k].activityCount = ActivityOne
          /\ now - teamGrid[team].chunks[k].lastActivity > NO_DECAY_PERIOD
          /\ now - teamGrid[team].chunks[k].lastActivity < ACTIVITY_LIFETIME
          /\ teamGrid[team].chunks[j].activityCount = ActivityOne
          /\ now - teamGrid[team].chunks[j].lastActivity <= NO_DECAY_PERIOD
          /\ teamGrid[team].chunks[j].lastActivity > StartTime

\* the state one application of the action by the action processor queues
ApplyOnce(type, x, y, shipSize, isHorizontal, team) ==
    IF type = "FIRE"
    THEN processFire(GridsOf(teamGrid), teamGrid, x, y, team, now, FALSE).q
    ELSE processPlace(GridsOf(teamGrid), teamGrid,
                      ShipCellsAt(x, y, shipSize, isHorizontal),
                      nextId, "anon", team, now).q

\* C25: a call simulateBattle(1, {testAction: {type, x, y, ...}}) results in
\* exactly one application of that PLACE_SHIP or FIRE action at (x, y) by the
\* action processor, for one of the teams.
C25_TestActionApplied ==
    [][\A type \in TestTypes, x \in ClickX, y \in ClickY, isHorizontal \in BOOLEAN,
          sync \in BOOLEAN :
          SimTestAction(type, x, y, SHIP_SIZES[1], isHorizontal, sync)
              => \E team \in Teams :
                    pending' = ApplyOnce(type, x, y, SHIP_SIZES[1], isHorizontal, team)]_vars

\* C26: a simulateBattle(n) call changes chunks through the actions it issues
\* only: entering the call changes no chunk of either team (no activityCount,
\* lastActivity or heatLevel is reset or lowered), and the call issues at most n
\* actions in all.
C26_SimulatorOnlyActs ==
    /\ [](sim.phase # "idle"
             => 2 * ShipsPerTeam(sim.n) + 2 * FiresPerTeam(sim.n) <= sim.n)
    /\ [][\/ \A team \in Teams : pending'[team].chunks = pending[team].chunks
          \/ ~(sim.phase = "idle" /\ sim'.phase # "idle")]_vars

\* C27: the placement preview and the placement check agree: for every grid,
\* every candidate placement and every time, a cooldownUntil equal to the time
\* included, the preview marks the placement valid iff isValidShipPlacement
\* accepts its cells.
C27_PreviewAgrees ==
    /\ last.op = "preview" => last.ret = last.check
    /\ \A team \in Teams, x \in CallX, y \in CallY, horizontal \in BOOLEAN :
          drawShipPreview(teamGrid[team].grid, x, y, SHIP_SIZES[1], horizontal, now)
              <=> isValidShipPlacement(teamGrid[team].grid,
                                       ShipCellsAt(x, y, SHIP_SIZES[1], horizontal), now)

\* C28: a cell click in the defend view calls placeShip and changes only the
\* player's own grid, which is the one displayed; a cell click in the attack
\* view calls fireShot and changes only the opposing grid, which is the one
\* displayed.
C28_ClicksFollowView ==
    [][\/ /\ last'.op = (IF ui.activeView = "defend" THEN "placeShip" ELSE "fireShot")
          /\ teamGrid'[Opposite(getActiveGrid(ui))] = teamGrid[Opposite(getActiveGrid(ui))]
       \/ ~CellClick]_vars

\* C29: at startup hasSelectedTeam is true exactly when the store holds a
\* value; setSelectedTeam(t) makes t the selected team and hasSelectedTeam
\* true, and resetTeamSelection empties the store and makes hasSelectedTeam
\* false; whenever hasSelectedTeam is true and the effects have run the store
\* holds the selected team, and while hasSelectedTeam is false the store is
\* empty.
C29_ChoicePersisted ==
    /\ [](/\ last.op = "init" => (ui.hasSelectedTeam <=> ui.store # NoValue)
          /\ (ui.hasSelectedTeam /\ ~ui.effects) => ui.store = ui.selectedTeam
          /\ ~ui.hasSelectedTeam => ui.store = NoValue)
    /\ [][/\ \A t \in Teams :
                (ui'.selectedTeam = t /\ ui'.hasSelectedTeam) \/ ~handleTeamSelection(t)
          /\ (ui'.store = NoValue /\ ~ui'.hasSelectedTeam) \/ ~resetTeamSelection]_vars

\* a team other than the default was chosen and the effect has stored it
C29_Witness ==
    /\ last.op = "useEffect"
    /\ last.after = "setSelectedTeam"
    /\ ui.hasSelectedTeam
    /\ ui.store = "red"

\* C30: after updateHeatLevels, of any two chunks of a team the one with at
\* least as much activity has at least as high a heatLevel.
C30_HeatMonotone ==
    last.op = "updateHeatLevels" =>
        \A a, b \in DOMAIN teamGrid["blue"].chunks :
            teamGrid["blue"].chunks[a].activityCount
                    >= teamGrid["blue"].chunks[b].activityCount
                => teamGrid["blue"].chunks[a].heatLevel
                       >= teamGrid["blue"].chunks[b].heatLevel

\* updateHeatLevels has ranked chunks of three different activity counts
\* into three different levels
C30_Witness ==
    /\ last.op = "updateHeatLevels"
    /\ \E a, b, c \in DOMAIN teamGrid["blue"].chunks :
          /\ teamGrid["blue"].chunks[a].activityCount
                 > teamGrid["blue"].chunks[b].activityCount
          /\ teamGrid["blue"].chunks[b].activityCount
                 > teamGrid["blue"].chunks[c].activityCount
          /\ teamGrid["blue"].chunks[a].heatLevel = 3
          /\ teamGrid["blue"].chunks[b].heatLevel = 1
          /\ teamGrid["blue"].chunks[c].heatLevel = 0

====
